---- MODULE Spec2Model ----
(***************************************************************************)
(* Quiz backend (Express + Mongoose): the quiz routes (list, read, create, *)
(* update, delete, submit) over the Quiz, Question, QuizAttempt and User   *)
(* collections.  Every `await` on the store is one atomic step; the local  *)
(* computation that follows it up to the next `await` belongs to the step. *)
(***************************************************************************)
EXTENDS Integers, Sequences, FiniteSets, TLC

\* ------------------------------------------------------------------------
\* Bounds
\* ------------------------------------------------------------------------
MaxSubmits == 2      \* submit requests issued in one behaviour
MaxAdminOps == 1     \* quiz create/update/delete requests in one behaviour
MaxAnswers == 1      \* length of the answers list of a submit request

\* ------------------------------------------------------------------------
\* Values
\* ------------------------------------------------------------------------
\* JS strings are sequences of characters; `undefined` is a value of its own.
Undefined == <<"undefined">>
\* the result of findById for a document that is not in the collection
NoDoc == [missing |-> TRUE]

StudentIds == {"s1", "s2"}
TeacherIds == {"t1", "t2"}
AdminIds == {"a1"}
UserIds == StudentIds \cup TeacherIds \cup AdminIds
QuestionIds == {"q1", "q2"}

DefaultMaxAttempts == 3
DefaultPassingScore == 60

VARIABLES
    users,       \* User collection: id -> document
    questions,   \* Question collection: id -> document or NoDoc
    quizzes,     \* Quiz collection: sequence indexed by id, document or NoDoc
    attempts,    \* QuizAttempt collection, in insertion order
    reqs,        \* submit requests: position in the handler and its locals
    adm,         \* the quiz update/delete request in flight
    adminOps,    \* number of quiz create/update/delete requests issued
    response,    \* the last response sent by a read, create, update or delete
    regs         \* registration and user-creation requests and their locals

vars == <<users, questions, quizzes, attempts, reqs, adm, adminOps, response, regs>>
store == <<users, questions, quizzes, attempts>>

\* ------------------------------------------------------------------------
\* Pure helpers
\* ------------------------------------------------------------------------
RECURSIVE SumSeq(_)
SumSeq(s) == IF s = <<>> THEN 0 ELSE Head(s) + SumSeq(Tail(s))

\* Math.round(num / den) for num >= 0, den > 0: halves round up
MathRound(num, den) == (2 * num + den) \div (2 * den)

\* String.prototype.toLowerCase over the alphabet of the model
LowerChar(c) == IF c = "A" THEN "a" ELSE IF c = "T" THEN "t" ELSE c
toLowerCase(s) == [i \in DOMAIN s |-> LowerChar(s[i])]

\* String.prototype.trim
RECURSIVE TrimLeft(_)
TrimLeft(s) == IF s # <<>> /\ Head(s) = " " THEN TrimLeft(Tail(s)) ELSE s
RECURSIVE TrimRight(_)
TrimRight(s) ==
    IF s # <<>> /\ s[Len(s)] = " " THEN TrimRight(SubSeq(s, 1, Len(s) - 1)) ELSE s
trim(s) == TrimRight(TrimLeft(s))

\* ------------------------------------------------------------------------
\* Number arithmetic: the score percentage is (correct / n) * 100 in IEEE-754
\* double precision, each operation rounded to nearest, ties to even
\* ------------------------------------------------------------------------
\* The 52 bits after the leading bit of a double, kept as 4 digits of 13 bits.
LimbBits == 13
Limbs == 4

RECURSIVE Pow2(_)
Pow2(k) == IF k = 0 THEN 1 ELSE 2 * Pow2(k - 1)
Base == Pow2(LimbBits)

\* A positive double is [digits, exp]: the integer written by the digits
\* (first digit first, base Base, the first digit of any size) times
\* 2^(exp - 52).  A quotient has first digit 1: exp is the power of two of its
\* leading bit.

\* num/den scaled by powers of two until den <= num < 2 * den
RECURSIVE Normalize(_, _, _)
Normalize(num, den, exp) ==
    IF num >= 2 * den THEN Normalize(num, 2 * den, exp + 1)
    ELSE IF num < den THEN Normalize(2 * num, den, exp - 1)
    ELSE [num |-> num, den |-> den, exp |-> exp]

\* the first k digits of r/den (r < den) after the point, and the remainder
RECURSIVE LongDivision(_, _, _)
LongDivision(r, den, k) ==
    IF k = 0 THEN [digits |-> <<>>, rem |-> r]
    ELSE [digits |-> <<(Base * r) \div den>>
                       \o LongDivision((Base * r) % den, den, k - 1).digits,
          rem |-> LongDivision((Base * r) % den, den, k - 1).rem]

\* digits + amount (amount <= Base); the carry ends in the first digit
RECURSIVE AddToLast(_, _)
AddToLast(digits, amount) ==
    IF Len(digits) = 1 THEN <<digits[1] + amount>>
    ELSE IF digits[Len(digits)] + amount < Base
    THEN [digits EXCEPT ![Len(digits)] = @ + amount]
    ELSE AddToLast(SubSeq(digits, 1, Len(digits) - 1), 1)
         \o <<digits[Len(digits)] + amount - Base>>

\* a / b for integers a, b > 0: 53 significant bits, the rest rounded
Divide(a, b) ==
    LET nz == Normalize(a, b, 0)
        d == LongDivision(nz.num - nz.den, nz.den, Limbs)
        last == d.digits[Limbs]
        up == \/ 2 * d.rem > nz.den
              \/ 2 * d.rem = nz.den /\ last % 2 = 1
        sum == AddToLast(<<1>> \o d.digits, 1)
    IN  IF ~up THEN [digits |-> <<1>> \o d.digits, exp |-> nz.exp]
        ELSE IF sum[1] = 2
        THEN [digits |-> <<1>> \o [i \in 1..Limbs |-> 0], exp |-> nz.exp + 1]
        ELSE [digits |-> sum, exp |-> nz.exp]

\* the exact product of the digits with integer k > 0, given the carry
RECURSIVE MultiplyDigits(_, _, _)
MultiplyDigits(digits, k, carry) ==
    IF Len(digits) = 1 THEN <<digits[1] * k + carry>>
    ELSE MultiplyDigits(SubSeq(digits, 1, Len(digits) - 1), k,
                        (digits[Len(digits)] * k + carry) \div Base)
         \o <<(digits[Len(digits)] * k + carry) % Base>>

\* the number of bits of c > 0
RECURSIVE BitLength(_)
BitLength(c) == IF c = 0 THEN 0 ELSE 1 + BitLength(c \div 2)

\* x * k for a double x and an integer 0 < k < Base: the product holds
\* `extra` bits more than 53, which are rounded away
Times(x, k) ==
    LET product == MultiplyDigits(x.digits, k, 0)
        extra == BitLength(product[1]) - 1
        unit == Pow2(extra)
        last == product[Len(product)]
        low == last % unit
        kept == [product EXCEPT ![Len(product)] = last - low]
        up == \/ 2 * low > unit
              \/ 2 * low = unit /\ (last \div unit) % 2 = 1
    IN  [digits |-> IF extra > 0 /\ up THEN AddToLast(kept, unit) ELSE kept,
         exp |-> x.exp]

\* the integer the digits write (small enough for the machine integer)
RECURSIVE DigitsToNat(_)
DigitsToNat(digits) ==
    IF digits = <<>> THEN 0
    ELSE Base * DigitsToNat(SubSeq(digits, 1, Len(digits) - 1)) + digits[Len(digits)]

\* the digits' integer divided by 2^shift, rounded down
RECURSIVE ShiftRight(_, _)
ShiftRight(digits, shift) ==
    IF digits = <<>> THEN 0
    ELSE IF shift >= LimbBits
    THEN ShiftRight(SubSeq(digits, 1, Len(digits) - 1), shift - LimbBits)
    ELSE DigitsToNat(digits) \div Pow2(shift)

\* Math.round(x) = floor(x + 1/2) = (floor(2 x) + 1) div 2, for x < Base
MathRoundDouble(x) ==
    (ShiftRight(x.digits, Limbs * LimbBits - 1 - x.exp) + 1) \div 2

\* Math.round((correctAnswers / n) * 100), n > 0
Percentage(correctAnswers, n) ==
    IF correctAnswers = 0 THEN 0
    ELSE MathRoundDouble(Times(Divide(correctAnswers, n), 100))

\* ------------------------------------------------------------------------
\* Store queries
\* ------------------------------------------------------------------------
QuizIds == DOMAIN quizzes
QuizExists(q) == q \in QuizIds /\ quizzes[q] # NoDoc

\* QuizAttempt.find({quiz: q})
AttemptsOfQuiz(q) == SelectSeq(attempts, LAMBDA a : a.quiz = q)
\* QuizAttempt.find({student: s})
AttemptsOfStudent(s) == SelectSeq(attempts, LAMBDA a : a.student = s)
\* QuizAttempt.countDocuments({quiz: q, student: s})
CountAttempts(q, s) ==
    Len(SelectSeq(attempts, LAMBDA a : a.quiz = q /\ a.student = s))

Percentages(as) == [i \in DOMAIN as |-> as[i].percentage]
\* Math.round(sum of percentage / length), for a non-empty list
RoundedMean(as) == MathRound(SumSeq(Percentages(as)), Len(as))

\* populate('questions'): the documents of the ids that resolve, in order
Populate(qids) ==
    LET docs == [i \in DOMAIN qids |-> questions[qids[i]]]
    IN SelectSeq(docs, LAMBDA d : d # NoDoc)

\* ------------------------------------------------------------------------
\* Grading (submit handler, the body of answers.map)
\* ------------------------------------------------------------------------
\* options.find(opt => opt.isCorrect): the options marked correct, first first
CorrectOptions(question) == SelectSeq(question.options, LAMBDA o : o.isCorrect)

\* One answer against its question.  threw: the callback raised a TypeError
\* (toLowerCase of undefined); isCorrect: the truthiness of isCorrect.
GradeAnswer(question, answer) ==
    LET corr == CorrectOptions(question)
        sel == answer.selectedAnswer
    IN  CASE question.questionType = "multiple-choice" ->
               [threw |-> FALSE,
                isCorrect |-> corr # <<>> /\ corr[1]._id = sel]
          [] question.questionType = "true-false" ->
               IF corr = <<>> THEN [threw |-> FALSE, isCorrect |-> FALSE]
               ELSE IF sel = Undefined THEN [threw |-> TRUE, isCorrect |-> FALSE]
               ELSE [threw |-> FALSE,
                     isCorrect |-> toLowerCase(corr[1].text) = toLowerCase(sel)]
          [] question.questionType = "short-answer" ->
               IF question.correctAnswer = Undefined \/ sel = Undefined
               THEN [threw |-> TRUE, isCorrect |-> FALSE]
               ELSE [threw |-> FALSE,
                     isCorrect |-> trim(toLowerCase(question.correctAnswer))
                                   = trim(toLowerCase(sel))]
          [] OTHER -> [threw |-> FALSE, isCorrect |-> FALSE]

\* quiz.questions.find(q => q._id.toString() === answer.questionId)
FindQuestion(qdocs, questionId) == SelectSeq(qdocs, LAMBDA d : d._id = questionId)

\* answers.map(...): threw when a questionId finds no question of the quiz
\* (question.questionType of undefined) or when grading an answer throws;
\* correctAnswers counts the answers graded correct.
GradeAll(qdocs, answers) ==
    LET one(i) == IF FindQuestion(qdocs, answers[i].questionId) = <<>>
                  THEN [threw |-> TRUE, isCorrect |-> FALSE]
                  ELSE GradeAnswer(FindQuestion(qdocs, answers[i].questionId)[1],
                                   answers[i])
    IN  [threw |-> \E i \in DOMAIN answers : one(i).threw,
         correctAnswers |-> Cardinality({i \in DOMAIN answers : one(i).isCorrect})]

\* ------------------------------------------------------------------------
\* Submit: POST /quizzes/:id/submit
\* ------------------------------------------------------------------------
IdleReq ==
    [pc |-> "idle", student |-> "", quizId |-> 0, quiz |-> NoDoc, qdocs |-> <<>>,
     overLimit |-> FALSE, previousAttempts |-> 0, score |-> 0, percentage |-> 0,
     passed |-> FALSE, avg |-> 0, userTaken |-> 0, userAvg |-> 0,
     outcome |-> "none", error |-> "none"]

\* the response is sent: only the request's identity and outcome remain
Finish(req, outcome, error) ==
    [IdleReq EXCEPT !.pc = "done", !.overLimit = req.overLimit,
                    !.outcome = outcome, !.error = error]

InFlight == {"count", "saveAttempt", "findQuizAttempts", "saveQuiz",
             "findUser", "findUserAttempts", "saveUser"}

\* the limit test with > in place of >=
LimitReachedStrict(previousAttempts, maxAttempts) == previousAttempts > maxAttempts

\* "Check if student has exceeded max attempts"
LimitReached(previousAttempts, maxAttempts) == previousAttempts >= maxAttempts

\* auth, authorize('student'), Quiz.findById(quizId).populate('questions')
SubmitFindQuiz(r, u, q) ==
    /\ reqs[r].pc = "idle"
    /\ IF r = 1 THEN TRUE ELSE reqs[r - 1].pc # "idle"   \* slots are used in order
    /\ LET req == [IdleReq EXCEPT !.student = u, !.quizId = q,
                       !.overLimit = /\ users[u].role = "student"
                                     /\ QuizExists(q)
                                     /\ CountAttempts(q, u) >= quizzes[q].maxAttempts]
           \* overLimit remembers the store at the time of the request, for the
           \* properties below; the handler does not read it
       IN  reqs' = [reqs EXCEPT ![r] =
                IF users[u].role # "student"
                THEN Finish(req, "PermissionDenied", "none")
                ELSE IF ~QuizExists(q) \/ ~quizzes[q].isPublished
                THEN Finish(req, "NotFound", "none")
                ELSE [req EXCEPT !.pc = "count", !.quiz = quizzes[q],
                                 !.qdocs = Populate(quizzes[q].questions)]]
    /\ UNCHANGED <<store, adm, adminOps, response, regs>>

\* the same with answers.map run ahead of the attempt limit
CountAndGradeGradesFirst(req, previousAttempts, answers) ==
    LET graded == GradeAll(req.qdocs, answers)
        n == Len(req.qdocs)
        percentage == Percentage(graded.correctAnswers, n)
    IN  IF graded.threw
        THEN Finish(req, "ServerError", "TypeError")
        ELSE IF LimitReached(previousAttempts, req.quiz.maxAttempts)
        THEN Finish(req, "AttemptLimitExceeded", "none")
        ELSE IF n = 0
        THEN Finish(req, "ServerError", "ValidationError")
        ELSE [req EXCEPT !.pc = "saveAttempt", !.qdocs = <<>>,
                         !.previousAttempts = previousAttempts,
                         !.score = graded.correctAnswers,
                         !.percentage = percentage,
                         !.passed = percentage >= req.quiz.passingScore]

\* the request after the attempt limit, answers.map and the score: rejected,
\* failed, or ready to save the attempt
CountAndGrade(req, previousAttempts, answers) ==
    LET graded == GradeAll(req.qdocs, answers)
        n == Len(req.qdocs)
        percentage == Percentage(graded.correctAnswers, n)
    IN  IF LimitReached(previousAttempts, req.quiz.maxAttempts)
        THEN Finish(req, "AttemptLimitExceeded", "none")
        ELSE IF graded.threw
        THEN Finish(req, "ServerError", "TypeError")
        ELSE IF n = 0    \* percentage is NaN: the attempt fails validation
        THEN Finish(req, "ServerError", "ValidationError")
        ELSE [req EXCEPT !.pc = "saveAttempt", !.qdocs = <<>>,
                         !.previousAttempts = previousAttempts,
                         !.score = graded.correctAnswers,
                         !.percentage = percentage,
                         !.passed = percentage >= req.quiz.passingScore]

\* the step with the attempt record written ahead of the checks
SubmitCountAndGradeWritesFirst(r, answers) ==
    /\ reqs[r].pc = "count"
    /\ LET previousAttempts == CountAttempts(reqs[r].quizId, reqs[r].student)
       IN  /\ reqs' = [reqs EXCEPT ![r] = CountAndGrade(@, previousAttempts, answers)]
           /\ attempts' = Append(attempts,
                  [id |-> r, quiz |-> reqs[r].quizId, student |-> reqs[r].student,
                   score |-> 0, percentage |-> 0,
                   attemptNumber |-> previousAttempts + 1, passed |-> FALSE])
    /\ UNCHANGED <<users, questions, quizzes, adm, adminOps, response, regs>>

\* QuizAttempt.countDocuments, the attempt limit, answers.map, the score
SubmitCountAndGrade(r, answers) ==
    /\ reqs[r].pc = "count"
    /\ reqs' = [reqs EXCEPT ![r] =
           CountAndGrade(@, CountAttempts(reqs[r].quizId, reqs[r].student), answers)]
    /\ UNCHANGED <<store, adm, adminOps, response, regs>>

\* attempt.save()
SubmitSaveAttempt(r) ==
    /\ reqs[r].pc = "saveAttempt"
    /\ attempts' = Append(attempts,
           [id |-> r, quiz |-> reqs[r].quizId, student |-> reqs[r].student,
            score |-> reqs[r].score, percentage |-> reqs[r].percentage,
            attemptNumber |-> reqs[r].previousAttempts + 1,
            passed |-> reqs[r].passed])
    /\ reqs' = [reqs EXCEPT ![r].pc = "findQuizAttempts"]
    /\ UNCHANGED <<users, questions, quizzes, adm, adminOps, response, regs>>

\* quiz.totalAttempts += 1; QuizAttempt.find({quiz}); the rounded average.
\* An empty result makes the average NaN, which quiz.save() rejects.
SubmitFindQuizAttempts(r) ==
    /\ reqs[r].pc = "findQuizAttempts"
    /\ LET all == AttemptsOfQuiz(reqs[r].quizId)
       IN  reqs' = [reqs EXCEPT ![r] =
                IF all = <<>>
                THEN Finish(reqs[r], "ServerError", "ValidationError")
                ELSE [reqs[r] EXCEPT !.pc = "saveQuiz", !.avg = RoundedMean(all)]]
    /\ UNCHANGED <<store, adm, adminOps, response, regs>>

\* quiz.save(): $set of the modified paths of the loaded document
SubmitSaveQuiz(r) ==
    /\ reqs[r].pc = "saveQuiz"
    /\ LET req == reqs[r]
           q == req.quizId
       IN  IF ~QuizExists(q)
           THEN /\ reqs' = [reqs EXCEPT ![r] =
                        Finish(req, "ServerError", "DocumentNotFound")]
                /\ UNCHANGED quizzes
           ELSE /\ quizzes' = [quizzes EXCEPT ![q] =
                        [@ EXCEPT !.totalAttempts = req.quiz.totalAttempts + 1,
                                  !.averageScore =
                                      IF req.avg # req.quiz.averageScore
                                      THEN req.avg ELSE @]]
                /\ reqs' = [reqs EXCEPT ![r] =
                        [req EXCEPT !.pc = "findUser", !.quiz = NoDoc, !.avg = 0]]
    /\ UNCHANGED <<users, questions, attempts, adm, adminOps, response, regs>>

\* User.findById(req.user._id); user.totalQuizzesTaken += 1
SubmitFindUser(r) ==
    /\ reqs[r].pc = "findUser"
    /\ reqs' = [reqs EXCEPT ![r] =
            [@ EXCEPT !.pc = "findUserAttempts",
                      !.userTaken = users[reqs[r].student].totalQuizzesTaken,
                      !.userAvg = users[reqs[r].student].averageScore]]
    /\ UNCHANGED <<store, adm, adminOps, response, regs>>

\* QuizAttempt.find({student}); the rounded average (NaN on an empty result)
SubmitFindUserAttempts(r) ==
    /\ reqs[r].pc = "findUserAttempts"
    /\ LET all == AttemptsOfStudent(reqs[r].student)
       IN  reqs' = [reqs EXCEPT ![r] =
                IF all = <<>>
                THEN Finish(reqs[r], "ServerError", "ValidationError")
                ELSE [reqs[r] EXCEPT !.pc = "saveUser", !.avg = RoundedMean(all)]]
    /\ UNCHANGED <<store, adm, adminOps, response, regs>>

\* user.save(); res.json({success: true, ...})
SubmitSaveUser(r) ==
    /\ reqs[r].pc = "saveUser"
    /\ LET req == reqs[r]
       IN  /\ users' = [users EXCEPT ![req.student] =
                   [@ EXCEPT !.totalQuizzesTaken = req.userTaken + 1,
                             !.averageScore =
                                 IF req.avg # req.userAvg THEN req.avg ELSE @]]
           /\ reqs' = [reqs EXCEPT ![r] = Finish(req, "Success", "none")]
    /\ UNCHANGED <<questions, quizzes, attempts, adm, adminOps, response, regs>>

\* an awaited store operation rejects: catch (error) -> 500, nothing undone
SubmitStoreFails(r) ==
    /\ reqs[r].pc \in InFlight
    /\ reqs' = [reqs EXCEPT ![r] = Finish(reqs[r], "ServerError", "StoreUnavailable")]
    /\ UNCHANGED <<store, adm, adminOps, response, regs>>

\* ------------------------------------------------------------------------
\* Quiz create / update / delete
\* ------------------------------------------------------------------------
\* schema defaults of a new Quiz
QuizDefaults ==
    [subject |-> "math", questions |-> <<>>, createdBy |-> "",
     maxAttempts |-> DefaultMaxAttempts, passingScore |-> DefaultPassingScore,
     isPublished |-> FALSE, allowedStudents |-> {},
     totalAttempts |-> 0, averageScore |-> 0]

\* Object.assign(doc, body) / {...body}: every schema path the body names
Assign(doc, body) ==
    [f \in DOMAIN doc |-> IF f \in DOMAIN body THEN body[f] ELSE doc[f]]

\* the paths Object.assign marks modified: named by the body, value changed
ModifiedPaths(doc, body) == {f \in DOMAIN doc \cap DOMAIN body : body[f] # doc[f]}

NoResponse == [op |-> "none", user |-> "", status |-> 0, body |-> NoDoc]

IdleAdm == [pc |-> "idle", user |-> "", quizId |-> 0, changes |-> <<>>]

\* authorize('admin', 'teacher')
MayManage(u) == users[u].role \in {"admin", "teacher"}
\* "Teachers can only update/delete their own quizzes"
OwnsOrAdmin(u, quiz) == users[u].role # "teacher" \/ quiz.createdBy = u

\* POST /quizzes
CreateQuiz(u, body) ==
    /\ adm.pc = "idle"
    /\ adminOps < MaxAdminOps
    /\ adminOps' = adminOps + 1
    /\ IF ~MayManage(u)
       THEN /\ response' = [op |-> "create", user |-> u, status |-> 403, body |-> NoDoc]
            /\ UNCHANGED quizzes
       ELSE IF Len(Populate(body.questions)) # Len(body.questions)
       THEN /\ response' = [op |-> "create", user |-> u, status |-> 400, body |-> NoDoc]
            /\ UNCHANGED quizzes
       ELSE LET quiz == [Assign(QuizDefaults, body) EXCEPT !.createdBy = u]
            IN  /\ quizzes' = Append(quizzes, quiz)
                /\ response' = [op |-> "create", user |-> u, status |-> 201, body |-> quiz]
    /\ UNCHANGED <<users, questions, attempts, reqs, adm, regs>>

\* PUT /quizzes/:id up to Object.assign(quiz, req.body)
UpdateFind(u, q, body) ==
    /\ adm.pc = "idle"
    /\ adminOps < MaxAdminOps
    /\ adminOps' = adminOps + 1
    /\ IF ~MayManage(u)
       THEN /\ response' = [op |-> "update", user |-> u, status |-> 403, body |-> NoDoc]
            /\ UNCHANGED adm
       ELSE IF ~QuizExists(q)
       THEN /\ response' = [op |-> "update", user |-> u, status |-> 404, body |-> NoDoc]
            /\ UNCHANGED adm
       ELSE IF ~OwnsOrAdmin(u, quizzes[q])
       THEN /\ response' = [op |-> "update", user |-> u, status |-> 403, body |-> NoDoc]
            /\ UNCHANGED adm
       ELSE /\ adm' = [pc |-> "updateSave", user |-> u, quizId |-> q,
                       changes |-> [f \in ModifiedPaths(quizzes[q], body) |-> body[f]]]
            /\ UNCHANGED response
    /\ UNCHANGED <<store, reqs, regs>>

\* quiz.save() of the update: $set of the modified paths
UpdateSave ==
    /\ adm.pc = "updateSave"
    /\ IF ~QuizExists(adm.quizId)
       THEN /\ response' = [op |-> "update", user |-> adm.user, status |-> 500,
                            body |-> NoDoc]
            /\ UNCHANGED quizzes
       ELSE /\ quizzes' = [quizzes EXCEPT ![adm.quizId] = Assign(@, adm.changes)]
            /\ response' = [op |-> "update", user |-> adm.user, status |-> 200,
                            body |-> quizzes'[adm.quizId]]
    /\ adm' = IdleAdm
    /\ UNCHANGED <<users, questions, attempts, reqs, adminOps, regs>>

\* DELETE /quizzes/:id up to the permission check
DeleteFind(u, q) ==
    /\ adm.pc = "idle"
    /\ adminOps < MaxAdminOps
    /\ adminOps' = adminOps + 1
    /\ IF ~MayManage(u)
       THEN /\ response' = [op |-> "delete", user |-> u, status |-> 403, body |-> NoDoc]
            /\ UNCHANGED adm
       ELSE IF ~QuizExists(q)
       THEN /\ response' = [op |-> "delete", user |-> u, status |-> 404, body |-> NoDoc]
            /\ UNCHANGED adm
       ELSE IF ~OwnsOrAdmin(u, quizzes[q])
       THEN /\ response' = [op |-> "delete", user |-> u, status |-> 403, body |-> NoDoc]
            /\ UNCHANGED adm
       ELSE /\ adm' = [pc |-> "deleteAttempts", user |-> u, quizId |-> q,
                       changes |-> <<>>]
            /\ UNCHANGED response
    /\ UNCHANGED <<store, reqs, regs>>

\* QuizAttempt.deleteMany({quiz: quiz._id})
DeleteAttempts ==
    /\ adm.pc = "deleteAttempts"
    /\ attempts' = SelectSeq(attempts, LAMBDA a : a.quiz # adm.quizId)
    /\ adm' = [adm EXCEPT !.pc = "deleteQuiz"]
    /\ UNCHANGED <<users, questions, quizzes, reqs, adminOps, response, regs>>

\* Quiz.findByIdAndDelete(req.params.id)
DeleteQuizDoc ==
    /\ adm.pc = "deleteQuiz"
    /\ quizzes' = [quizzes EXCEPT ![adm.quizId] = NoDoc]
    /\ response' = [op |-> "delete", user |-> adm.user, status |-> 200, body |-> NoDoc]
    /\ adm' = IdleAdm
    /\ UNCHANGED <<users, questions, attempts, reqs, adminOps, regs>>

\* an awaited store operation of the update or delete rejects: 500
AdminStoreFails ==
    /\ adm.pc # "idle"
    /\ response' = [op |-> IF adm.pc = "updateSave" THEN "update" ELSE "delete",
                    user |-> adm.user, status |-> 500, body |-> NoDoc]
    /\ adm' = IdleAdm
    /\ UNCHANGED <<store, reqs, adminOps, regs>>

\* ------------------------------------------------------------------------
\* Quiz reads: GET /quizzes and GET /quizzes/:id
\* ------------------------------------------------------------------------
\* a query-string parameter the request does not carry (undefined)
NoParam == "(none)"

WithId(q, doc) == [f \in DOMAIN doc \cup {"_id"} |-> IF f = "_id" THEN q ELSE doc[f]]

\* populate('questions', 'title difficulty'): the selected paths and _id
Summaries(qids) ==
    LET docs == Populate(qids)
    IN  [i \in DOMAIN docs |-> [_id |-> docs[i]._id]]

\* the filter GET /quizzes builds from the role and the query string
ListQuery(u, subject, isPublished) ==
    LET role == users[u].role
    IN  [restricted |-> role = "student",   \* $or: allow-list has u, or is empty
         createdBy |-> IF role = "teacher" THEN u ELSE NoParam,
         subject |-> subject,
         isPublished |-> IF isPublished # NoParam
                         THEN (IF isPublished = "true" THEN "true" ELSE "false")
                         ELSE IF role = "student" THEN "true" ELSE NoParam]

Matches(query, u, quiz) ==
    /\ query.restricted => (u \in quiz.allowedStudents \/ quiz.allowedStudents = {})
    /\ query.createdBy # NoParam => quiz.createdBy = query.createdBy
    /\ query.subject # NoParam => quiz.subject = query.subject
    /\ query.isPublished # NoParam => quiz.isPublished = (query.isPublished = "true")

\* the ids of the matching quizzes, newest first (ids are in creation order)
RECURSIVE NewestFirst(_, _, _)
NewestFirst(query, u, q) ==
    IF q = 0 THEN <<>>
    ELSE (IF QuizExists(q) /\ Matches(query, u, quizzes[q]) THEN <<q>> ELSE <<>>)
         \o NewestFirst(query, u, q - 1)

\* .limit(limit).skip((page - 1) * limit)
PageOf(s, page, limit) ==
    LET skip == (page - 1) * limit
        last == IF skip + limit < Len(s) THEN skip + limit ELSE Len(s)
    IN  SubSeq(s, skip + 1, last)

\* GET /quizzes
ListQuizzes(u, subject, isPublished, page, limit) ==
    /\ LET ids == PageOf(NewestFirst(ListQuery(u, subject, isPublished), u, Len(quizzes)),
                         page, limit)
       IN  response' = [op |-> "list", user |-> u, status |-> 200,
                        body |-> [i \in DOMAIN ids |->
                                    [WithId(ids[i], quizzes[ids[i]]) EXCEPT
                                        !.questions = Summaries(@)]]]
    /\ UNCHANGED <<store, reqs, adm, adminOps, regs>>

\* the student view with the options passed through as stored
StudentViewKeepsOptions(question) ==
    [question EXCEPT !.correctAnswer = Undefined, !.explanation = Undefined]

\* "For students, don't show correct answers"
StudentView(question) ==
    [question EXCEPT
        !.options = [i \in DOMAIN @ |-> [text |-> @[i].text, _id |-> @[i]._id]],
        !.correctAnswer = Undefined,
        !.explanation = Undefined]

\* QuizAttempt.find({quiz, student}).sort({attemptNumber: -1})
RECURSIVE SortByAttemptNumberDesc(_)
SortByAttemptNumberDesc(s) ==
    IF s = <<>> THEN <<>>
    ELSE LET top == CHOOSE i \in DOMAIN s :
                        \A j \in DOMAIN s :
                            \/ s[j].attemptNumber < s[i].attemptNumber
                            \/ s[j].attemptNumber = s[i].attemptNumber /\ i <= j
         IN  <<s[top]>> \o SortByAttemptNumberDesc(
                 [k \in 1..(Len(s) - 1) |-> IF k < top THEN s[k] ELSE s[k + 1]])

\* GET /quizzes/:id
GetQuiz(u, q) ==
    /\ LET role == users[u].role
           quiz == quizzes[q]
           full == [WithId(q, quiz) EXCEPT !.questions = Populate(@)]
           mine == SelectSeq(attempts, LAMBDA a : a.quiz = q /\ a.student = u)
       IN  response' =
             IF ~QuizExists(q)
             THEN [op |-> "get", user |-> u, status |-> 404, body |-> NoDoc]
             ELSE IF role = "student" /\ ~quiz.isPublished
             THEN [op |-> "get", user |-> u, status |-> 403, body |-> NoDoc]
             ELSE IF /\ role = "student"
                     /\ quiz.allowedStudents # {}
                     /\ u \notin quiz.allowedStudents
             THEN [op |-> "get", user |-> u, status |-> 403, body |-> NoDoc]
             ELSE IF role = "teacher" /\ quiz.createdBy # u
             THEN [op |-> "get", user |-> u, status |-> 403, body |-> NoDoc]
             ELSE [op |-> "get", user |-> u, status |-> 200,
                   body |-> [quiz |-> IF role = "student"
                                      THEN [full EXCEPT !.questions =
                                               [i \in DOMAIN @ |-> StudentView(@[i])]]
                                      ELSE full,
                             userAttempts |-> IF role = "student"
                                              THEN SortByAttemptNumberDesc(mine)
                                              ELSE <<>>]]
    /\ UNCHANGED <<store, reqs, adm, adminOps, regs>>

\* ------------------------------------------------------------------------
\* Initial store and the specification of the write paths
\* ------------------------------------------------------------------------
RoleOf(u) == IF u \in StudentIds THEN "student"
             ELSE IF u \in TeacherIds THEN "teacher" ELSE "admin"

InitUsers == [u \in UserIds |->
                 [role |-> RoleOf(u), totalQuizzesTaken |-> 0, averageScore |-> 0]]

\* q1: multiple choice, first option correct; q2: short answer
InitQuestions ==
    [id \in QuestionIds |->
        IF id = "q1"
        THEN [_id |-> "q1", questionType |-> "multiple-choice",
              options |-> << [_id |-> <<"1">>, text |-> <<"A">>, isCorrect |-> TRUE],
                             [_id |-> <<"2">>, text |-> <<"b">>, isCorrect |-> FALSE] >>,
              correctAnswer |-> Undefined, explanation |-> <<"e">>,
              createdBy |-> "t1"]
        ELSE [_id |-> "q2", questionType |-> "short-answer",
              options |-> <<>>,
              correctAnswer |-> <<"A", " ">>, explanation |-> Undefined,
              createdBy |-> "t2"]]

\* one published public quiz of teacher t1 over question q1
InitQuizzes ==
    << [QuizDefaults EXCEPT !.questions = <<"q1">>, !.createdBy = "t1",
                            !.isPublished = TRUE, !.maxAttempts = 1] >>

Init ==
    /\ users = InitUsers
    /\ questions = InitQuestions
    /\ quizzes = InitQuizzes
    /\ attempts = <<>>
    /\ reqs = [r \in 1..MaxSubmits |-> IdleReq]
    /\ adm = IdleAdm
    /\ adminOps = 0
    /\ response = NoResponse
    /\ regs = <<>>

\* request inputs
Selections == {Undefined, <<"1">>, <<"2">>, <<"a">>}
Answers == [questionId : QuestionIds, selectedAnswer : Selections]
RECURSIVE SeqsUpTo(_, _)
SeqsUpTo(S, n) ==
    IF n = 0 THEN {<<>>}
    ELSE LET shorter == SeqsUpTo(S, n - 1)
         IN  shorter \cup {Append(s, x) : s \in {t \in shorter : Len(t) = n - 1}, x \in S}
AnswerLists == SeqsUpTo(Answers, MaxAnswers)

\* request bodies of the quiz write paths: one schema path each
UpdateBodies ==
    {[isPublished |-> FALSE], [maxAttempts |-> 2],
     [totalAttempts |-> 1, averageScore |-> 100]}
CreateBodies ==
    {[questions |-> <<"q1">>, isPublished |-> TRUE, maxAttempts |-> 1]}

Managers == {"t1"}

Next ==
    \/ \E r \in 1..MaxSubmits, u \in StudentIds, q \in QuizIds :
           SubmitFindQuiz(r, u, q)
    \/ \E r \in 1..MaxSubmits, answers \in AnswerLists : SubmitCountAndGrade(r, answers)
    \/ \E r \in 1..MaxSubmits : SubmitSaveAttempt(r)
    \/ \E r \in 1..MaxSubmits : SubmitFindQuizAttempts(r)
    \/ \E r \in 1..MaxSubmits : SubmitSaveQuiz(r)
    \/ \E r \in 1..MaxSubmits : SubmitFindUser(r)
    \/ \E r \in 1..MaxSubmits : SubmitFindUserAttempts(r)
    \/ \E r \in 1..MaxSubmits : SubmitSaveUser(r)
    \/ \E r \in 1..MaxSubmits : SubmitStoreFails(r)
    \/ \E u \in Managers, q \in QuizIds, body \in UpdateBodies : UpdateFind(u, q, body)
    \/ UpdateSave
    \/ \E u \in Managers, q \in QuizIds : DeleteFind(u, q)
    \/ DeleteAttempts
    \/ DeleteQuizDoc
    \/ AdminStoreFails

Spec == Init /\ [][Next]_vars

\* ------------------------------------------------------------------------
\* The same handlers run one request at a time, with no store failure
\* ------------------------------------------------------------------------
Quiet == adm.pc = "idle" /\ \A r \in 1..MaxSubmits : reqs[r].pc \in {"idle", "done"}

\* two published public quizzes of teacher t1
InitQuizzesSeq ==
    << [QuizDefaults EXCEPT !.questions = <<"q1">>, !.createdBy = "t1",
                            !.isPublished = TRUE, !.maxAttempts = 1],
       [QuizDefaults EXCEPT !.questions = <<"q1">>, !.createdBy = "t1",
                            !.isPublished = TRUE] >>

InitSeq ==
    /\ users = InitUsers
    /\ questions = InitQuestions
    /\ quizzes = InitQuizzesSeq
    /\ attempts = <<>>
    /\ reqs = [r \in 1..MaxSubmits |-> IdleReq]
    /\ adm = IdleAdm
    /\ adminOps = 0
    /\ response = NoResponse
    /\ regs = <<>>

NextSeq ==
    \/ /\ Quiet
       /\ \E r \in 1..MaxSubmits, u \in StudentIds, q \in QuizIds : SubmitFindQuiz(r, u, q)
    \/ \E r \in 1..MaxSubmits, answers \in AnswerLists : SubmitCountAndGrade(r, answers)
    \/ \E r \in 1..MaxSubmits : SubmitSaveAttempt(r)
    \/ \E r \in 1..MaxSubmits : SubmitFindQuizAttempts(r)
    \/ \E r \in 1..MaxSubmits : SubmitSaveQuiz(r)
    \/ \E r \in 1..MaxSubmits : SubmitFindUser(r)
    \/ \E r \in 1..MaxSubmits : SubmitFindUserAttempts(r)
    \/ \E r \in 1..MaxSubmits : SubmitSaveUser(r)
    \/ /\ Quiet
       /\ \E u \in Managers, body \in CreateBodies : CreateQuiz(u, body)
    \/ /\ Quiet
       /\ \E u \in Managers, q \in QuizIds, body \in UpdateBodies : UpdateFind(u, q, body)
    \/ UpdateSave
    \/ /\ Quiet
       /\ \E u \in Managers, q \in QuizIds : DeleteFind(u, q)
    \/ DeleteAttempts
    \/ DeleteQuizDoc

SpecSeq == InitSeq /\ [][NextSeq]_vars

\* ------------------------------------------------------------------------
\* Properties
\* ------------------------------------------------------------------------
Students == {u \in UserIds : users[u].role = "student"}

\* the stored aggregate of a quiz agrees with its attempts: the count, and
\* the mean percentage to the nearest integer (the precision it is stored in)
QuizAggregateOK(q) ==
    LET all == AttemptsOfQuiz(q)
    IN  /\ quizzes[q].totalAttempts = Len(all)
        /\ all # <<>> => quizzes[q].averageScore = RoundedMean(all)

UserAverageOK(u) ==
    LET all == AttemptsOfStudent(u)
    IN  all # <<>> => users[u].averageScore = RoundedMean(all)

UserCountOK(u) == users[u].totalQuizzesTaken = Len(AttemptsOfStudent(u))

\* C1: whenever no request is in flight, every quiz has totalAttempts equal to
\* the number of attempts that reference it and averageScore equal to the mean
\* percentage of those attempts.
C1_QuizAggregatesMatchAttempts ==
    Quiet => \A q \in QuizIds : QuizExists(q) => QuizAggregateOK(q)

\* C2: whenever no request is in flight, every user's averageScore is the mean
\* percentage of exactly the attempts of that user, after any sequence of
\* submits and quiz deletions.
C2_UserAverageMatchesAttempts ==
    Quiet => \A u \in Students : UserAverageOK(u)

\* the attempt numbers of the persisted attempts of student u on quiz q
AttemptNumbers(q, u) ==
    LET mine == SelectSeq(attempts, LAMBDA a : a.quiz = q /\ a.student = u)
    IN  [i \in DOMAIN mine |-> mine[i].attemptNumber]

\* C3: for every (student, quiz) pair the attempt numbers of the persisted
\* attempts are exactly 1..n, each used once, also when submits interleave.
C3_AttemptNumbersContiguous ==
    \A q \in QuizIds, u \in Students :
        LET nums == AttemptNumbers(q, u)
        IN  /\ {nums[i] : i \in DOMAIN nums} = 1..Len(nums)
            /\ \A i, j \in DOMAIN nums : i # j => nums[i] # nums[j]

\* C4 (as claimed): a submit by a student who, when the request arrives, has
\* quiz.maxAttempts or more persisted attempts on the quiz always ends with
\* the attempt-limit outcome (a store failure apart).
C4_OverLimitAlwaysLimitExceeded ==
    \A r \in 1..MaxSubmits :
        (reqs[r].pc = "done" /\ reqs[r].overLimit /\ reqs[r].error # "StoreUnavailable")
            => reqs[r].outcome = "AttemptLimitExceeded"

\* C4 (amended): a submit on a missing or unpublished quiz ends with NotFound;
\* a submit that found its quiz published and counts maxAttempts or more
\* persisted attempts of the student on it ends with the attempt-limit
\* outcome; neither adds an attempt.
C4_CountedOverLimitIsRejected ==
    [][\A r \in 1..MaxSubmits :
          /\ \A u \in UserIds, q \in QuizIds :
                (SubmitFindQuiz(r, u, q) /\ users[u].role = "student"
                     /\ (~QuizExists(q) \/ ~quizzes[q].isPublished))
                  => (reqs'[r].outcome = "NotFound" /\ attempts' = attempts)
          /\ (/\ reqs[r].pc = "count"
              /\ reqs'[r].pc # "count"
              /\ reqs'[r].error # "StoreUnavailable"
              /\ CountAttempts(reqs[r].quizId, reqs[r].student) >= reqs[r].quiz.maxAttempts)
                  => (/\ reqs'[r].pc = "done"
                      /\ reqs'[r].outcome = "AttemptLimitExceeded"
                      /\ attempts' = attempts)]_vars

C4_Witness ==
    \E r \in 1..MaxSubmits :
        /\ reqs[r].pc = "done"
        /\ reqs[r].overLimit
        /\ reqs[r].outcome = "AttemptLimitExceeded"
        /\ Len(attempts) = 1

\* C5: no submit has finished leaving its attempt persisted without having
\* gone through the quiz and user aggregate updates (a finished request whose
\* attempt exists finished with success, i.e. after user.save()).
C5_AttemptAndAggregatesTogether ==
    \A i \in DOMAIN attempts :
        reqs[attempts[i].id].pc = "done" => reqs[attempts[i].id].outcome = "Success"

\* C6: once all submits have finished (none in flight, no quiz update or
\* delete issued, no store failure), the submits being of different students,
\* the quiz and user aggregates equal the count and the mean percentage of
\* the persisted attempts.
C6_AggregatesAfterConcurrentSubmits ==
    (/\ Quiet
     /\ adminOps = 0
     /\ \A r \in 1..MaxSubmits : reqs[r].outcome # "ServerError"
     /\ \A i, j \in DOMAIN attempts :
            i # j => attempts[i].student # attempts[j].student)
        => /\ \A q \in QuizIds : QuizExists(q) => QuizAggregateOK(q)
           /\ \A u \in Students : UserAverageOK(u) /\ UserCountOK(u)

\* some answer names a question that is not one of the quiz's questions
UnknownReference(qdocs, answers) ==
    \E i \in DOMAIN answers : FindQuestion(qdocs, answers[i].questionId) = <<>>

\* C7: a submit that passes the quiz and attempt-limit checks and whose
\* answers name a question outside the quiz ends with the InvalidAnswer
\* outcome and persists no attempt.
C7_UnknownQuestionIsInvalidAnswer ==
    [][\A r \in 1..MaxSubmits, answers \in AnswerLists :
          (/\ SubmitCountAndGrade(r, answers)
           /\ CountAttempts(reqs[r].quizId, reqs[r].student) < reqs[r].quiz.maxAttempts
           /\ UnknownReference(reqs[r].qdocs, answers))
              => (reqs'[r].outcome = "InvalidAnswer" /\ attempts' = attempts)]_vars

\* the outcomes of a failed business rule: quiz missing or unpublished,
\* attempt limit reached, answers that cannot be graded against the quiz
BusinessFailure(req) ==
    \/ req.outcome \in {"NotFound", "AttemptLimitExceeded", "InvalidAnswer"}
    \/ req.outcome = "ServerError" /\ req.error = "TypeError"

\* C8: the step in which a submit fails a business rule leaves the store
\* unchanged, and the request has made no write before it (it fails from a
\* position ahead of attempt.save() and no attempt of it exists).
C8_BusinessFailureLeavesStore ==
    [][\A r \in 1..MaxSubmits :
          (reqs[r].pc # "done" /\ reqs'[r].pc = "done" /\ BusinessFailure(reqs'[r]))
              => /\ store' = store
                 /\ reqs[r].pc \in {"idle", "count"}
                 /\ \A i \in DOMAIN attempts : attempts[i].id # r]_vars

\* the scenario: a first attempt on a maxAttempts = 1 quiz succeeded, the
\* second was rejected, and quiz.totalAttempts is still 1
C8_Witness ==
    /\ reqs[1].outcome = "Success"
    /\ reqs[2].outcome = "AttemptLimitExceeded"
    /\ QuizExists(1) /\ quizzes[1].maxAttempts = 1 /\ quizzes[1].totalAttempts = 1
    /\ Len(attempts) = 1

\* C15: every persisted attempt references a quiz that exists (a quiz is
\* removed by a completed delete only), also when submits interleave with
\* the delete.
C15_NoAttemptOfDeletedQuiz ==
    \A i \in DOMAIN attempts : QuizExists(attempts[i].quiz)

\* C25: while a quiz keeps the maxAttempts it started with, no student has
\* more persisted attempts on it than maxAttempts, also when submits of one
\* student interleave between the count and the save.
C25_AttemptsWithinLimit ==
    \A q \in QuizIds, u \in StudentIds :
        (QuizExists(q) /\ q \in DOMAIN InitQuizzes
                       /\ quizzes[q].maxAttempts = InitQuizzes[q].maxAttempts)
            => CountAttempts(q, u) <= quizzes[q].maxAttempts

\* C20: the preconditions of a submit are checked in order and the first
\* that fails decides the outcome: a missing or unpublished quiz gives
\* NotFound whatever the attempt count; on a published quiz a count at the
\* limit gives AttemptLimitExceeded whatever the answers reference; under
\* the limit an answer naming a question outside the quiz makes the submit
\* fail with neither of those two outcomes and with no attempt saved.
C20_FirstFailedPreconditionDecides ==
    [][\A r \in 1..MaxSubmits :
          /\ \A u \in StudentIds, q \in QuizIds :
                (/\ SubmitFindQuiz(r, u, q)
                 /\ ~QuizExists(q) \/ ~quizzes[q].isPublished)
                   => (reqs'[r].pc = "done" /\ reqs'[r].outcome = "NotFound")
          /\ \A answers \in AnswerLists :
                (/\ SubmitCountAndGrade(r, answers)
                 /\ CountAttempts(reqs[r].quizId, reqs[r].student)
                        >= reqs[r].quiz.maxAttempts)
                   => (reqs'[r].pc = "done"
                       /\ reqs'[r].outcome = "AttemptLimitExceeded")
          /\ \A answers \in AnswerLists :
                (/\ SubmitCountAndGrade(r, answers)
                 /\ CountAttempts(reqs[r].quizId, reqs[r].student)
                        < reqs[r].quiz.maxAttempts
                 /\ UnknownReference(reqs[r].qdocs, answers))
                   => (/\ reqs'[r].pc = "done"
                       /\ reqs'[r].outcome
                              \notin {"Success", "NotFound", "AttemptLimitExceeded"}
                       /\ attempts' = attempts)]_vars

\* the first scenario: a student at the attempt limit submitted to the quiz
\* after it was unpublished, and got NotFound
C20_Witness ==
    \E r \in 1..MaxSubmits :
        /\ reqs[r].pc = "done"
        /\ reqs[r].overLimit
        /\ reqs[r].outcome = "NotFound"
        /\ QuizExists(1) /\ ~quizzes[1].isPublished

\* ------------------------------------------------------------------------
\* The read paths, over a store that quiz create/update/delete change
\* ------------------------------------------------------------------------
\* a public published quiz of t1, a published quiz of t2 open to s1 only
InitQuizzesRead ==
    << [QuizDefaults EXCEPT !.questions = <<"q1", "q2">>, !.createdBy = "t1",
                            !.isPublished = TRUE],
       [QuizDefaults EXCEPT !.questions = <<"q2">>, !.createdBy = "t2",
                            !.isPublished = TRUE, !.allowedStudents = {"s1"}] >>

InitRead ==
    /\ users = InitUsers
    /\ questions = InitQuestions
    /\ quizzes = InitQuizzesRead
    /\ attempts = <<>>
    /\ reqs = [r \in 1..MaxSubmits |-> IdleReq]
    /\ adm = IdleAdm
    /\ adminOps = 0
    /\ response = NoResponse
    /\ regs = <<>>

ReadUpdateBodies ==
    {[isPublished |-> FALSE], [allowedStudents |-> {"s2"}], [allowedStudents |-> {}]}
ReadCreateBodies ==
    {[questions |-> <<"q1">>], [questions |-> <<"q1">>, isPublished |-> TRUE]}
Subjects == {NoParam, "math"}
PublishedParams == {NoParam, "true", "false"}
Pages == {1, 2}
Limits == {1, 10}

NextRead ==
    \/ \E u \in UserIds, subject \in Subjects, isPublished \in PublishedParams,
          page \in Pages, limit \in Limits :
           ListQuizzes(u, subject, isPublished, page, limit)
    \/ \E u \in UserIds, q \in 1..(Len(quizzes) + 1) : GetQuiz(u, q)
    \/ \E u \in UserIds, body \in ReadCreateBodies : CreateQuiz(u, body)
    \/ \E u \in UserIds, q \in QuizIds, body \in ReadUpdateBodies : UpdateFind(u, q, body)
    \/ UpdateSave
    \/ \E u \in UserIds, q \in QuizIds : DeleteFind(u, q)
    \/ DeleteAttempts
    \/ DeleteQuizDoc
    \/ AdminStoreFails

SpecRead == InitRead /\ [][NextRead]_vars

\* student u may read the quiz: published, allow-list empty or containing u
Readable(u, quiz) ==
    quiz.isPublished /\ (quiz.allowedStudents = {} \/ u \in quiz.allowedStudents)

\* C9: every quiz in a response to a student's list or read request is
\* published and has an allow-list that is empty or contains the student,
\* whatever the query parameters.
C9_StudentSeesOnlyReadableQuizzes ==
    (response.status = 200 /\ users[response.user].role = "student")
        => /\ response.op = "list"
              => \A i \in DOMAIN response.body : Readable(response.user, response.body[i])
           /\ response.op = "get" => Readable(response.user, response.body.quiz)

\* no answer key in a question as sent: options are {text, _id}, no
\* correctAnswer, no explanation
NoAnswerKey(question) ==
    /\ \A i \in DOMAIN question.options : DOMAIN question.options[i] = {"text", "_id"}
    /\ question.correctAnswer = Undefined
    /\ question.explanation = Undefined

\* C10: the quiz a student reads carries, for each of its questions, only
\* option ids and texts and neither correctAnswer nor explanation, and the
\* read leaves the stored quizzes and questions as they were.
C10_StudentReadHidesAnswerKey ==
    [][(/\ response'.op = "get"
        /\ response'.status = 200
        /\ users[response'.user].role = "student"
        /\ GetQuiz(response'.user, response'.body.quiz._id))
          => /\ \A i \in DOMAIN response'.body.quiz.questions :
                    NoAnswerKey(response'.body.quiz.questions[i])
             /\ Len(response'.body.quiz.questions)
                    = Len(quizzes[response'.body.quiz._id].questions)
             /\ quizzes' = quizzes
             /\ questions' = questions]_vars

C10_Witness ==
    /\ response.op = "get"
    /\ response.status = 200
    /\ users[response.user].role = "student"
    /\ Len(response.body.quiz.questions) = 2
    /\ \E id \in QuestionIds : questions[id].correctAnswer # Undefined
    /\ \E id \in QuestionIds : questions[id].explanation # Undefined

\* ------------------------------------------------------------------------
\* Question routes: GET/POST/PUT/DELETE /questions
\* ------------------------------------------------------------------------
MaxQuestionOps == 2   \* question create/update/delete requests in one behaviour

\* ids the store hands to created questions, in order
FreshQuestionIds == <<"q3", "q4", "q5">>
UnusedQuestionIds ==
    SelectSeq(FreshQuestionIds, LAMBDA id : id \notin DOMAIN questions)

QuestionExists(id) == id \in DOMAIN questions /\ questions[id] # NoDoc

\* schema defaults of a new Question
QuestionDefaults ==
    [_id |-> "", questionType |-> "multiple-choice", options |-> <<>>,
     correctAnswer |-> Undefined, explanation |-> Undefined, createdBy |-> ""]

\* "Teachers can only view/update/delete their own questions"
OwnsQuestion(u, question) == users[u].role # "teacher" \/ question.createdBy = u

\* GET /questions/:id
GetQuestion(u, id) ==
    /\ response' =
         IF ~MayManage(u)
         THEN [op |-> "getQuestion", user |-> u, status |-> 403, body |-> NoDoc]
         ELSE IF ~QuestionExists(id)
         THEN [op |-> "getQuestion", user |-> u, status |-> 404, body |-> NoDoc]
         ELSE IF users[u].role = "teacher" /\ questions[id].createdBy \notin DOMAIN users
         THEN \* populate('createdBy') left null: createdBy._id throws
              [op |-> "getQuestion", user |-> u, status |-> 500, body |-> NoDoc]
         ELSE IF ~OwnsQuestion(u, questions[id])
         THEN [op |-> "getQuestion", user |-> u, status |-> 403, body |-> NoDoc]
         ELSE [op |-> "getQuestion", user |-> u, status |-> 200, body |-> questions[id]]
    /\ UNCHANGED <<store, reqs, adm, adminOps, regs>>

\* POST /questions: the option checks apply to multiple-choice bodies only
CreateQuestion(u, body) ==
    /\ adm.pc = "idle"
    /\ adminOps < MaxQuestionOps
    /\ UnusedQuestionIds # <<>>
    /\ adminOps' = adminOps + 1
    /\ IF ~MayManage(u)
       THEN /\ response' = [op |-> "createQuestion", user |-> u, status |-> 403,
                            body |-> NoDoc]
            /\ UNCHANGED questions
       ELSE IF /\ body.questionType = "multiple-choice"
               /\ \/ "options" \notin DOMAIN body
                  \/ Len(body.options) < 2
                  \/ SelectSeq(body.options, LAMBDA o : o.isCorrect) = <<>>
       THEN /\ response' = [op |-> "createQuestion", user |-> u, status |-> 400,
                            body |-> NoDoc]
            /\ UNCHANGED questions
       ELSE LET id == UnusedQuestionIds[1]
                question == [Assign(QuestionDefaults, body) EXCEPT
                                !._id = id, !.createdBy = u]
            IN  /\ questions' = [x \in DOMAIN questions \cup {id} |->
                                    IF x = id THEN question ELSE questions[x]]
                /\ response' = [op |-> "createQuestion", user |-> u, status |-> 201,
                                body |-> question]
    /\ UNCHANGED <<users, quizzes, attempts, reqs, adm, regs>>

\* PUT /questions/:id up to Object.assign(question, req.body)
UpdateQuestionFind(u, id, body) ==
    /\ adm.pc = "idle"
    /\ adminOps < MaxQuestionOps
    /\ adminOps' = adminOps + 1
    /\ IF ~MayManage(u)
       THEN /\ response' = [op |-> "updateQuestion", user |-> u, status |-> 403,
                            body |-> NoDoc]
            /\ UNCHANGED adm
       ELSE IF ~QuestionExists(id)
       THEN /\ response' = [op |-> "updateQuestion", user |-> u, status |-> 404,
                            body |-> NoDoc]
            /\ UNCHANGED adm
       ELSE IF ~OwnsQuestion(u, questions[id])
       THEN /\ response' = [op |-> "updateQuestion", user |-> u, status |-> 403,
                            body |-> NoDoc]
            /\ UNCHANGED adm
       ELSE /\ adm' = [pc |-> "questionSave", user |-> u, questionId |-> id,
                       changes |-> [f \in ModifiedPaths(questions[id], body) |-> body[f]]]
            /\ UNCHANGED response
    /\ UNCHANGED <<store, reqs, regs>>

\* question.save() of the update: $set of the modified paths
UpdateQuestionSave ==
    /\ adm.pc = "questionSave"
    /\ IF ~QuestionExists(adm.questionId)
       THEN /\ response' = [op |-> "updateQuestion", user |-> adm.user, status |-> 500,
                            body |-> NoDoc]
            /\ UNCHANGED questions
       ELSE /\ questions' = [questions EXCEPT ![adm.questionId] = Assign(@, adm.changes)]
            /\ response' = [op |-> "updateQuestion", user |-> adm.user, status |-> 200,
                            body |-> questions'[adm.questionId]]
    /\ adm' = IdleAdm
    /\ UNCHANGED <<users, quizzes, attempts, reqs, adminOps, regs>>

\* DELETE /questions/:id up to the permission check
DeleteQuestionFind(u, id) ==
    /\ adm.pc = "idle"
    /\ adminOps < MaxQuestionOps
    /\ adminOps' = adminOps + 1
    /\ IF ~MayManage(u)
       THEN /\ response' = [op |-> "deleteQuestion", user |-> u, status |-> 403,
                            body |-> NoDoc]
            /\ UNCHANGED adm
       ELSE IF ~QuestionExists(id)
       THEN /\ response' = [op |-> "deleteQuestion", user |-> u, status |-> 404,
                            body |-> NoDoc]
            /\ UNCHANGED adm
       ELSE IF ~OwnsQuestion(u, questions[id])
       THEN /\ response' = [op |-> "deleteQuestion", user |-> u, status |-> 403,
                            body |-> NoDoc]
            /\ UNCHANGED adm
       ELSE /\ adm' = [pc |-> "questionDelete", user |-> u, questionId |-> id,
                       changes |-> <<>>]
            /\ UNCHANGED response
    /\ UNCHANGED <<store, reqs, regs>>

\* Question.findByIdAndDelete(req.params.id)
DeleteQuestionDoc ==
    /\ adm.pc = "questionDelete"
    /\ questions' = [questions EXCEPT ![adm.questionId] = NoDoc]
    /\ response' = [op |-> "deleteQuestion", user |-> adm.user, status |-> 200,
                    body |-> NoDoc]
    /\ adm' = IdleAdm
    /\ UNCHANGED <<users, quizzes, attempts, reqs, adminOps, regs>>

\* request bodies of the question write paths
TwoOptions ==
    << [_id |-> <<"1">>, text |-> <<"T">>, isCorrect |-> TRUE],
       [_id |-> <<"2">>, text |-> <<"b">>, isCorrect |-> FALSE] >>
QuestionCreateBodies ==
    {[questionType |-> "multiple-choice", options |-> TwoOptions],
     [questionType |-> "multiple-choice", options |-> <<TwoOptions[2]>>],
     [questionType |-> "multiple-choice"],
     [questionType |-> "true-false"],
     [questionType |-> "short-answer", correctAnswer |-> <<"a">>]}
QuestionUpdateBodies ==
    {[explanation |-> <<"a">>], [options |-> <<>>], [createdBy |-> "t2"]}

NextQuestions ==
    \/ \E u \in UserIds, id \in DOMAIN questions : GetQuestion(u, id)
    \/ \E u \in UserIds, body \in QuestionCreateBodies : CreateQuestion(u, body)
    \/ \E u \in UserIds, id \in DOMAIN questions, body \in QuestionUpdateBodies :
           UpdateQuestionFind(u, id, body)
    \/ UpdateQuestionSave
    \/ \E u \in UserIds, id \in DOMAIN questions : DeleteQuestionFind(u, id)
    \/ DeleteQuestionDoc

SpecQuestions == Init /\ [][NextQuestions]_vars

\* the teacher who created each question of the initial store
CreatorOf(id) == IF id = "q1" THEN "t1" ELSE "t2"

\* C11: a read, update or delete of a present question by a teacher other
\* than the one who created it is answered 403 and leaves the questions as
\* they were, whatever updates were issued before.
C11_OtherTeacherIsDenied ==
    [][\A u \in TeacherIds, id \in QuestionIds :
          (/\ u # CreatorOf(id)
           /\ QuestionExists(id)
           /\ \/ GetQuestion(u, id)
              \/ \E body \in QuestionUpdateBodies : UpdateQuestionFind(u, id, body)
              \/ DeleteQuestionFind(u, id))
              => /\ response'.status = 403
                 /\ adm' = adm
                 /\ questions' = questions]_vars

\* a choice question with fewer than 2 options or none marked correct
BadChoiceQuestion(question) ==
    /\ question.questionType \in {"multiple-choice", "true-false"}
    /\ \/ Len(question.options) < 2
       \/ CorrectOptions(question) = <<>>

\* C18: every stored multiple-choice or true-false question has at least 2
\* options and at least 1 option marked correct.
C18_ChoiceQuestionsHaveOptions ==
    \A id \in DOMAIN questions :
        QuestionExists(id) => ~BadChoiceQuestion(questions[id])

\* ------------------------------------------------------------------------
\* The score of a submit, over quizzes of every size up to MaxQuizQuestions
\* ------------------------------------------------------------------------
MaxQuizQuestions == 40

\* multiple-choice questions "1", "2", ..., each with its first option correct
ScoreQuestionIds == {ToString(i) : i \in 1..MaxQuizQuestions}
InitQuestionsScore ==
    [id \in ScoreQuestionIds |->
        [QuestionDefaults EXCEPT !._id = id, !.options = TwoOptions, !.createdBy = "t1"]]

\* one published public quiz of t1 over the first n questions
InitScore ==
    /\ users = InitUsers
    /\ questions = InitQuestionsScore
    /\ \E n \in 1..MaxQuizQuestions :
           quizzes = << [QuizDefaults EXCEPT
                            !.questions = [i \in 1..n |-> ToString(i)],
                            !.createdBy = "t1", !.isPublished = TRUE] >>
    /\ attempts = <<>>
    /\ reqs = [r \in 1..MaxSubmits |-> IdleReq]
    /\ adm = IdleAdm
    /\ adminOps = 0
    /\ response = NoResponse
    /\ regs = <<>>

\* an answers list over questions "1".."n": the first k answered with the
\* correct option, the others with the wrong one
FirstCorrect(k, n) ==
    [i \in 1..n |-> [questionId |-> ToString(i),
                     selectedAnswer |-> IF i <= k THEN <<"1">> ELSE <<"2">>]]

\* one submit request, run to its end
NextScore ==
    \/ \E q \in QuizIds : SubmitFindQuiz(1, "s1", q)
    \/ \E k \in 0..Len(reqs[1].qdocs) :
           SubmitCountAndGrade(1, FirstCorrect(k, Len(reqs[1].qdocs)))
    \/ SubmitSaveAttempt(1)
    \/ SubmitFindQuizAttempts(1)
    \/ SubmitSaveQuiz(1)
    \/ SubmitFindUser(1)
    \/ SubmitFindUserAttempts(1)
    \/ SubmitSaveUser(1)

SpecScore == InitScore /\ [][NextScore]_vars

\* C12: a submit that goes on to save its attempt carries as score the
\* number of answers graded correct, and every persisted attempt has
\* percentage = round(100 * score / number of questions of its quiz) and
\* passed = (percentage >= quiz.passingScore).
C12_ScorePercentagePassed ==
    /\ [][\A k \in 0..Len(reqs[1].qdocs) :
             (/\ SubmitCountAndGrade(1, FirstCorrect(k, Len(reqs[1].qdocs)))
              /\ reqs'[1].pc = "saveAttempt")
                 => reqs'[1].score = k]_vars
    /\ [](\A i \in DOMAIN attempts :
             LET a == attempts[i]
                 quiz == quizzes[a.quiz]
             IN  /\ a.percentage = MathRound(100 * a.score, Len(quiz.questions))
                 /\ a.passed = (a.percentage >= quiz.passingScore))

\* ------------------------------------------------------------------------
\* Grading of arbitrary answers lists, and GET /analytics/quiz-analytics/:id
\* ------------------------------------------------------------------------
MaxGradeAnswers == 2   \* length of the answers list of a submit request

BucketNames == {"0-20", "21-40", "41-60", "61-80", "81-100"}

\* the filter behind each key of scoreDistribution
InBucket(k, percentage) ==
    CASE k = "0-20" -> percentage >= 0 /\ percentage < 21
      [] k = "21-40" -> percentage >= 21 /\ percentage < 41
      [] k = "41-60" -> percentage >= 41 /\ percentage < 61
      [] k = "61-80" -> percentage >= 61 /\ percentage < 81
      [] k = "81-100" -> percentage >= 81

ScoreDistribution(as) ==
    [k \in BucketNames |-> Len(SelectSeq(as, LAMBDA a : InBucket(k, a.percentage)))]

\* attempts.slice(-10).map(att => ({score: att.percentage, passed: att.passed}))
RecentAttempts(as) ==
    LET first == IF Len(as) > 10 THEN Len(as) - 9 ELSE 1
    IN  [i \in 1..(Len(as) - first + 1) |->
            [score |-> as[first + i - 1].percentage,
             passed |-> as[first + i - 1].passed]]

\* GET /analytics/quiz-analytics/:id (the per-question part left out)
QuizAnalytics(u, q) ==
    /\ LET all == AttemptsOfQuiz(q)
           passed == SelectSeq(all, LAMBDA a : a.passed)
       IN  response' =
             IF ~MayManage(u)
             THEN [op |-> "quizAnalytics", user |-> u, status |-> 403, body |-> NoDoc]
             ELSE IF ~QuizExists(q)
             THEN [op |-> "quizAnalytics", user |-> u, status |-> 404, body |-> NoDoc]
             ELSE IF users[u].role = "teacher" /\ quizzes[q].createdBy # u
             THEN [op |-> "quizAnalytics", user |-> u, status |-> 403, body |-> NoDoc]
             ELSE [op |-> "quizAnalytics", user |-> u, status |-> 200,
                   body |-> [quiz |-> [totalAttempts |-> Len(all),
                                       passRate |-> IF Len(all) > 0
                                                    THEN Percentage(Len(passed), Len(all))
                                                    ELSE 0],
                             scoreDistribution |-> ScoreDistribution(all),
                             recentAttempts |-> RecentAttempts(all)]]
    /\ UNCHANGED <<store, reqs, adm, adminOps, regs>>

\* q1, q2 as above; q3: short answer with no correctAnswer; q4: true-false,
\* "T" correct; q5: multiple choice with no option marked correct
GradeQuestionIds == {"q1", "q2", "q3", "q4", "q5"}
InitQuestionsGrade ==
    [id \in GradeQuestionIds |->
        CASE id \in QuestionIds -> InitQuestions[id]
          [] id = "q3" -> [QuestionDefaults EXCEPT !._id = id, !.createdBy = "t1",
                                                   !.questionType = "short-answer"]
          [] id = "q4" -> [QuestionDefaults EXCEPT !._id = id, !.createdBy = "t1",
                                                   !.questionType = "true-false",
                                                   !.options = TwoOptions]
          [] id = "q5" -> [QuestionDefaults EXCEPT !._id = id, !.createdBy = "t1",
                              !.options = [i \in 1..2 |->
                                  [TwoOptions[i] EXCEPT !.isCorrect = FALSE]]]]

\* published public quizzes of t1: one question; four questions
InitQuizzesGrade ==
    << [QuizDefaults EXCEPT !.questions = <<"q1">>, !.createdBy = "t1",
                            !.isPublished = TRUE],
       [QuizDefaults EXCEPT !.questions = <<"q2", "q3", "q4", "q5">>,
                            !.createdBy = "t1", !.isPublished = TRUE] >>

InitGrade ==
    /\ users = InitUsers
    /\ questions = InitQuestionsGrade
    /\ quizzes = InitQuizzesGrade
    /\ attempts = <<>>
    /\ reqs = [r \in 1..MaxSubmits |-> IdleReq]
    /\ adm = IdleAdm
    /\ adminOps = 0
    /\ response = NoResponse
    /\ regs = <<>>

GradeSelections == {Undefined, <<"1">>, <<"a">>, <<"t">>}
GradeAnswers == [questionId : GradeQuestionIds, selectedAnswer : GradeSelections]
GradeAnswerLists == SeqsUpTo(GradeAnswers, MaxGradeAnswers)

\* submits one at a time, analytics reads in between
NextGrade ==
    \/ /\ Quiet
       /\ \E r \in 1..MaxSubmits, q \in QuizIds : SubmitFindQuiz(r, "s1", q)
    \/ \E r \in 1..MaxSubmits, answers \in GradeAnswerLists :
           SubmitCountAndGrade(r, answers)
    \/ \E r \in 1..MaxSubmits : SubmitSaveAttempt(r)
    \/ \E r \in 1..MaxSubmits : SubmitFindQuizAttempts(r)
    \/ \E r \in 1..MaxSubmits : SubmitSaveQuiz(r)
    \/ \E r \in 1..MaxSubmits : SubmitFindUser(r)
    \/ \E r \in 1..MaxSubmits : SubmitFindUserAttempts(r)
    \/ \E r \in 1..MaxSubmits : SubmitSaveUser(r)
    \/ \E u \in UserIds, q \in QuizIds : QuizAnalytics(u, q)

SpecGrade == InitGrade /\ [][NextGrade]_vars

\* C13: every persisted attempt has a percentage in 0..100 and a score no
\* larger than the number of questions of its quiz.
C13_PercentageAndScoreInRange ==
    \A i \in DOMAIN attempts :
        /\ attempts[i].percentage >= 0
        /\ attempts[i].percentage <= 100
        /\ attempts[i].score <= Len(quizzes[attempts[i].quiz].questions)

\* C14: a submit that is under the attempt limit and whose answers all name
\* questions of the quiz goes on to save its attempt, whatever correctness
\* data the questions lack and whatever selectedAnswer the answers lack.
C14_GradingNeverAborts ==
    [][\A r \in 1..MaxSubmits, answers \in GradeAnswerLists :
          (/\ SubmitCountAndGrade(r, answers)
           /\ CountAttempts(reqs[r].quizId, reqs[r].student) < reqs[r].quiz.maxAttempts
           /\ ~UnknownReference(reqs[r].qdocs, answers))
              => reqs'[r].pc = "saveAttempt"]_vars

\* C19: in every quiz-analytics response each attempt falls in exactly one
\* of the five buckets, the bucket counts sum to the number of attempts, and
\* the top bucket counts exactly the attempts with a percentage in 81..100.
C19_BucketsPartitionAttempts ==
    (response.op = "quizAnalytics" /\ response.status = 200)
        => LET dist == response.body.scoreDistribution
               recent == response.body.recentAttempts
           IN  /\ \A i \in DOMAIN recent :
                      Cardinality({k \in BucketNames : InBucket(k, recent[i].score)}) = 1
               /\ dist["0-20"] + dist["21-40"] + dist["41-60"] + dist["61-80"]
                      + dist["81-100"] = response.body.quiz.totalAttempts
               /\ dist["81-100"]
                      = Cardinality({i \in DOMAIN recent : recent[i].score \in 81..100})

\* ------------------------------------------------------------------------
\* Users: POST /auth/register, POST /users (admin only), PUT /users/:id
\* ------------------------------------------------------------------------
MaxRegs == 2          \* register and create-user requests in one behaviour
MaxUserUpdates == 1   \* PUT /users/:id requests in one behaviour

Roles == {"admin", "teacher", "student"}

\* ids the store hands to created users, in order
FreshUserIds == <<"u1", "u2", "u3">>
UnusedUserIds == SelectSeq(FreshUserIds, LAMBDA id : id \notin DOMAIN users)

\* body('email').normalizeEmail(): lower case
normalizeEmail(email) == toLowerCase(email)
\* the schema setters of email: lowercase, trim
StoredEmail(email) == trim(toLowerCase(email))

\* the users holding the email; the unique index keeps them to one at most
UsersWithEmail(email) == {id \in DOMAIN users : users[id].email = StoredEmail(email)}

\* the role a registration stores: `role = 'admin'` overwrites the request's
\* role ahead of `role || 'student'`
RegisteredRole(requested) ==
    LET role == "admin"
    IN  IF role # "" THEN role ELSE "student"

IdleReg == [pc |-> "idle", kind |-> "", email |-> <<>>, role |-> "", outcome |-> "none"]
DoneReg(reg, outcome) == [reg EXCEPT !.pc = "done", !.outcome = outcome]

\* POST /auth/register up to User.findOne({email})
RegisterFind(g, email, role) ==
    /\ regs[g].pc = "idle"
    /\ IF g = 1 THEN TRUE ELSE regs[g - 1].pc # "idle"   \* slots are used in order
    /\ LET reg == [IdleReg EXCEPT !.kind = "register", !.email = normalizeEmail(email),
                                  !.role = RegisteredRole(role)]
       IN  regs' = [regs EXCEPT ![g] =
                IF UsersWithEmail(reg.email) # {}
                THEN DoneReg(reg, "AlreadyExists")
                ELSE [reg EXCEPT !.pc = "save"]]
    /\ UNCHANGED <<store, reqs, adm, adminOps, response>>

\* POST /users up to User.findOne({email})
CreateUserFind(g, actor, email, role) ==
    /\ regs[g].pc = "idle"
    /\ IF g = 1 THEN TRUE ELSE regs[g - 1].pc # "idle"
    /\ LET reg == [IdleReg EXCEPT !.kind = "create", !.email = normalizeEmail(email),
                                  !.role = role]
       IN  regs' = [regs EXCEPT ![g] =
                IF users[actor].role # "admin"
                THEN DoneReg(reg, "PermissionDenied")
                ELSE IF UsersWithEmail(reg.email) # {}
                THEN DoneReg(reg, "AlreadyExists")
                ELSE [reg EXCEPT !.pc = "save"]]
    /\ UNCHANGED <<store, reqs, adm, adminOps, response>>

\* user.save(): the insert fails on the unique index of email (E11000), which
\* the handler answers with 500 'Server error'
SaveNewUser(g) ==
    /\ regs[g].pc = "save"
    /\ UnusedUserIds # <<>>
    /\ IF UsersWithEmail(regs[g].email) # {}
       THEN /\ regs' = [regs EXCEPT ![g] = DoneReg(@, "ServerError")]
            /\ UNCHANGED users
       ELSE LET id == UnusedUserIds[1]
                user == [role |-> regs[g].role, email |-> StoredEmail(regs[g].email),
                         totalQuizzesTaken |-> 0, averageScore |-> 0]
            IN  /\ users' = [x \in DOMAIN users \cup {id} |->
                                IF x = id THEN user ELSE users[x]]
                /\ regs' = [regs EXCEPT ![g] = DoneReg(@, "Created")]
    /\ UNCHANGED <<questions, quizzes, attempts, reqs, adm, adminOps, response>>

\* POST /auth/register: user.save() and the 201 response
RegisterSave(g) == regs[g].kind = "register" /\ SaveNewUser(g)

\* POST /users: user.save() and the 201 response
CreateUserSave(g) == regs[g].kind = "create" /\ SaveNewUser(g)

\* PUT /users/:id: findByIdAndUpdate(id, {name, email}, {runValidators: true})
UpdateUser(actor, id, email) ==
    /\ adminOps < MaxUserUpdates
    /\ adminOps' = adminOps + 1
    /\ IF users[actor].role \in {"student", "teacher"} /\ actor # id
       THEN /\ response' = [op |-> "updateUser", user |-> actor, status |-> 403,
                            body |-> NoDoc]
            /\ UNCHANGED users
       ELSE IF id \notin DOMAIN users
       THEN /\ response' = [op |-> "updateUser", user |-> actor, status |-> 404,
                            body |-> NoDoc]
            /\ UNCHANGED users
       ELSE IF UsersWithEmail(email) \ {id} # {}
       THEN /\ response' = [op |-> "updateUser", user |-> actor, status |-> 500,
                            body |-> NoDoc]
            /\ UNCHANGED users
       ELSE /\ users' = [users EXCEPT ![id].email = StoredEmail(email)]
            /\ response' = [op |-> "updateUser", user |-> actor, status |-> 200,
                            body |-> users'[id]]
    /\ UNCHANGED <<questions, quizzes, attempts, reqs, adm, regs>>

\* an admin and a student, each with an email of its own
InitUsersReg ==
    [u \in {"a1", "s1"} |->
        [role |-> RoleOf(u), email |-> IF u = "a1" THEN <<"t">> ELSE <<"b">>,
         totalQuizzesTaken |-> 0, averageScore |-> 0]]

InitReg ==
    /\ users = InitUsersReg
    /\ questions = InitQuestions
    /\ quizzes = InitQuizzes
    /\ attempts = <<>>
    /\ reqs = [r \in 1..MaxSubmits |-> IdleReq]
    /\ adm = IdleAdm
    /\ adminOps = 0
    /\ response = NoResponse
    /\ regs = [g \in 1..MaxRegs |-> IdleReg]

\* request inputs
Emails == {<<"a">>, <<"A">>, <<"b">>}

NextUsers ==
    \/ \E g \in 1..MaxRegs, email \in Emails, role \in Roles \cup {NoParam} :
           RegisterFind(g, email, role)
    \/ \E g \in 1..MaxRegs : RegisterSave(g)
    \/ \E g \in 1..MaxRegs, actor \in DOMAIN users, email \in Emails, role \in Roles :
           CreateUserFind(g, actor, email, role)
    \/ \E g \in 1..MaxRegs : CreateUserSave(g)
    \/ \E actor \in DOMAIN users, id \in DOMAIN users \cup {FreshUserIds[3]},
          email \in Emails :
           UpdateUser(actor, id, email)

SpecUsers == InitReg /\ [][NextUsers]_vars

\* the users a step adds, and those whose role it changes
AddedUsers == DOMAIN users' \ DOMAIN users
RoleChanged == {id \in DOMAIN users \cap DOMAIN users' : users'[id].role # users[id].role}

\* C16: a user added by a registration has role student whatever role was
\* asked for; a user gets role teacher or admin only in the save step of the
\* admin-only user creation.
C16_RegistrationGivesStudent ==
    [][/\ \A g \in 1..MaxRegs :
             RegisterSave(g) => \A id \in AddedUsers : users'[id].role = "student"
       /\ (\E id \in AddedUsers \cup RoleChanged : users'[id].role \in {"teacher", "admin"})
             => \E g \in 1..MaxRegs : CreateUserSave(g)]_vars

\* C17: no two users share an email, and a registration or user creation
\* that ends while its email belongs to a user ends with the already-exists
\* outcome and adds no user, also when it passed the existence check before
\* that user was saved.
C17_EmailsUnique ==
    /\ [](\A a, b \in DOMAIN users : a # b => users[a].email # users[b].email)
    /\ [][\A g \in 1..MaxRegs :
             (/\ regs[g].pc # "done"
              /\ regs'[g].pc = "done"
              /\ regs'[g].outcome # "PermissionDenied"
              /\ UsersWithEmail(regs'[g].email) # {})
                 => (regs'[g].outcome = "AlreadyExists" /\ users' = users)]_vars

\* ------------------------------------------------------------------------
\* Access: submits to restricted quizzes, GET /analytics/student-performance
\* ------------------------------------------------------------------------
\* the double 0
Zero == [digits |-> [i \in 1..(Limbs + 1) |-> 0], exp |-> 0]

\* the attempts newest first: sort({submittedAt: -1})
NewestAttemptsFirst(as) == [i \in DOMAIN as |-> as[Len(as) + 1 - i]]

\* .limit(50)
Limit50(as) == IF Len(as) > 50 THEN SubSeq(as, 1, 50) ELSE as

\* the filter of QuizAttempt.find(query) as the handler builds it
PerformanceQuery(u, studentId, quizId) ==
    [student |-> studentId,
     quiz |-> IF quizId # <<>> THEN {quizId[1]}
              ELSE IF users[u].role = "teacher"
              THEN {q \in QuizIds : QuizExists(q) /\ quizzes[q].createdBy = u}
              ELSE QuizIds \cup {a.quiz : a \in {attempts[i] : i \in DOMAIN attempts}}]

MatchesPerformanceQuery(query, a) ==
    /\ query.student # NoParam => a.student = query.student
    /\ a.quiz \in query.quiz

\* populate('quiz', 'title subject passingScore'); null for a deleted quiz
PopulatedQuiz(q) ==
    IF QuizExists(q)
    THEN [_id |-> q, subject |-> quizzes[q].subject,
          passingScore |-> quizzes[q].passingScore]
    ELSE NoDoc

\* the reduce and the final metrics: one entry per student, in the order
\* the students first appear
PerformanceData(found) ==
    LET firsts == SelectSeq([i \in DOMAIN found |-> i],
                      LAMBDA i : \A j \in 1..(i - 1) : found[j].student # found[i].student)
    IN  [k \in DOMAIN firsts |->
            LET student == found[firsts[k]].student
                mine == SelectSeq(found, LAMBDA a : a.student = student)
                total == SumSeq(Percentages(mine))
                passed == Len(SelectSeq(mine, LAMBDA a : a.passed))
            IN  [student |-> student,
                 attempts |-> [i \in DOMAIN mine |->
                                  [quiz |-> PopulatedQuiz(mine[i].quiz),
                                   score |-> mine[i].percentage,
                                   passed |-> mine[i].passed]],
                 totalAttempts |-> Len(mine),
                 averageScore |-> IF total = 0 THEN Zero ELSE Divide(total, Len(mine)),
                 passRate |-> IF passed = 0 THEN Zero
                              ELSE Times(Divide(passed, Len(mine)), 100)]]

\* GET /analytics/student-performance?studentId=&quizId=
StudentPerformance(u, studentId, quizId) ==
    /\ LET query == PerformanceQuery(u, studentId, quizId)
           found == Limit50(NewestAttemptsFirst(
                        SelectSeq(attempts, LAMBDA a : MatchesPerformanceQuery(query, a))))
       IN  response' =
             IF ~MayManage(u)
             THEN [op |-> "studentPerformance", user |-> u, status |-> 403,
                   body |-> NoDoc]
             ELSE IF \E i \in DOMAIN found : found[i].student \notin DOMAIN users
             THEN [op |-> "studentPerformance", user |-> u, status |-> 500,
                   body |-> NoDoc]
             ELSE [op |-> "studentPerformance", user |-> u, status |-> 200,
                   body |-> PerformanceData(found)]
    /\ UNCHANGED <<store, reqs, adm, adminOps, regs>>

\* the store of the read paths: a public quiz of t1, a quiz of t2 open to
\* s1 only
InitAccess == InitRead

StudentParams == StudentIds \cup {NoParam}
\* the quizId parameter: absent, or one id
QuizParams == {<<>>, <<1>>, <<2>>}

NextAccess ==
    \/ /\ Quiet
       /\ \E r \in 1..MaxSubmits, u \in StudentIds, q \in QuizIds : SubmitFindQuiz(r, u, q)
    \/ \E r \in 1..MaxSubmits, answers \in AnswerLists : SubmitCountAndGrade(r, answers)
    \/ \E r \in 1..MaxSubmits : SubmitSaveAttempt(r)
    \/ \E r \in 1..MaxSubmits : SubmitFindQuizAttempts(r)
    \/ \E r \in 1..MaxSubmits : SubmitSaveQuiz(r)
    \/ \E r \in 1..MaxSubmits : SubmitFindUser(r)
    \/ \E r \in 1..MaxSubmits : SubmitFindUserAttempts(r)
    \/ \E r \in 1..MaxSubmits : SubmitSaveUser(r)
    \/ \E u \in StudentIds, q \in QuizIds : GetQuiz(u, q)
    \/ \E u \in UserIds, studentId \in StudentParams, quizId \in QuizParams :
           StudentPerformance(u, studentId, quizId)

SpecAccess == InitAccess /\ [][NextAccess]_vars

\* C21: every persisted attempt is on a quiz its student can read: no
\* submit of a student to a published quiz whose allow-list is non-empty
\* and does not contain the student persists an attempt (the quizzes'
\* allow-lists are fixed here).
C21_SubmitOnlyToReadableQuiz ==
    \A i \in DOMAIN attempts :
        Readable(attempts[i].student, quizzes[attempts[i].quiz])

\* C22: the attempts in a student-performance response to a teacher are all
\* on quizzes that teacher created, whatever studentId and quizId were sent.
C22_TeacherSeesOwnQuizzesOnly ==
    (/\ response.op = "studentPerformance"
     /\ response.status = 200
     /\ users[response.user].role = "teacher")
        => \A k \in DOMAIN response.body : \A i \in DOMAIN response.body[k].attempts :
               LET quiz == response.body[k].attempts[i].quiz
               IN  quiz # NoDoc /\ quizzes[quiz._id].createdBy = response.user

\* ------------------------------------------------------------------------
\* Grading of a multiple-choice question with several options marked correct
\* ------------------------------------------------------------------------
\* POST /questions accepts any number of correct options above zero
ThreeOptions ==
    << [_id |-> <<"1">>, text |-> <<"A">>, isCorrect |-> TRUE],
       [_id |-> <<"2">>, text |-> <<"b">>, isCorrect |-> TRUE],
       [_id |-> <<"3">>, text |-> <<"c">>, isCorrect |-> FALSE] >>

\* q1: multiple choice, options 1 and 2 marked correct; q2 as above
InitQuestionsChoice == [InitQuestions EXCEPT !["q1"].options = ThreeOptions]

InitChoice ==
    /\ users = InitUsers
    /\ questions = InitQuestionsChoice
    /\ quizzes = InitQuizzesSeq
    /\ attempts = <<>>
    /\ reqs = [r \in 1..MaxSubmits |-> IdleReq]
    /\ adm = IdleAdm
    /\ adminOps = 0
    /\ response = NoResponse
    /\ regs = <<>>

ChoiceSelections == {Undefined, <<"1">>, <<"2">>, <<"3">>, <<"A">>}
ChoiceAnswerLists ==
    SeqsUpTo([questionId : {"q1"}, selectedAnswer : ChoiceSelections], MaxAnswers)

\* submits one at a time
NextChoice ==
    \/ /\ Quiet
       /\ \E r \in 1..MaxSubmits, u \in StudentIds, q \in QuizIds : SubmitFindQuiz(r, u, q)
    \/ \E r \in 1..MaxSubmits, answers \in ChoiceAnswerLists :
           SubmitCountAndGrade(r, answers)
    \/ \E r \in 1..MaxSubmits : SubmitSaveAttempt(r)
    \/ \E r \in 1..MaxSubmits : SubmitFindQuizAttempts(r)
    \/ \E r \in 1..MaxSubmits : SubmitSaveQuiz(r)
    \/ \E r \in 1..MaxSubmits : SubmitFindUser(r)
    \/ \E r \in 1..MaxSubmits : SubmitFindUserAttempts(r)
    \/ \E r \in 1..MaxSubmits : SubmitSaveUser(r)

SpecChoice == InitChoice /\ [][NextChoice]_vars

\* the selection is the id of an option marked isCorrect
SelectsCorrectOption(question, answer) ==
    \E i \in DOMAIN question.options :
        question.options[i].isCorrect /\ question.options[i]._id = answer.selectedAnswer

\* C23: a submit with one answer to a multiple-choice question of the quiz
\* that goes on to save its attempt has score 1 if and only if the
\* selection is the id of an option marked isCorrect, whichever of several
\* correct options it is.
C23_ChoiceCorrectIffMarkedOption ==
    [][\A r \in 1..MaxSubmits, answers \in ChoiceAnswerLists :
          (/\ SubmitCountAndGrade(r, answers)
           /\ Len(answers) = 1
           /\ reqs'[r].pc = "saveAttempt")
             => LET question == FindQuestion(reqs[r].qdocs, answers[1].questionId)[1]
                IN  question.questionType = "multiple-choice"
                       => (reqs'[r].score = 1
                              <=> SelectsCorrectOption(question, answers[1]))]_vars

\* ------------------------------------------------------------------------
\* The frame of PUT /quizzes/:id
\* ------------------------------------------------------------------------
\* request bodies of the update: content paths, the aggregates, the owner
FrameUpdateBodies == UpdateBodies \cup {[createdBy |-> "t2"], [subject |-> "art"]}

\* submits one at a time, updates by teachers and the admin in between
NextFrame ==
    \/ /\ Quiet
       /\ \E r \in 1..MaxSubmits, u \in StudentIds, q \in QuizIds : SubmitFindQuiz(r, u, q)
    \/ \E r \in 1..MaxSubmits, answers \in AnswerLists : SubmitCountAndGrade(r, answers)
    \/ \E r \in 1..MaxSubmits : SubmitSaveAttempt(r)
    \/ \E r \in 1..MaxSubmits : SubmitFindQuizAttempts(r)
    \/ \E r \in 1..MaxSubmits : SubmitSaveQuiz(r)
    \/ \E r \in 1..MaxSubmits : SubmitFindUser(r)
    \/ \E r \in 1..MaxSubmits : SubmitFindUserAttempts(r)
    \/ \E r \in 1..MaxSubmits : SubmitSaveUser(r)
    \/ /\ Quiet
       /\ \E u \in TeacherIds \cup AdminIds, q \in QuizIds, body \in FrameUpdateBodies :
              UpdateFind(u, q, body)
    \/ UpdateSave

SpecFrame == InitSeq /\ [][NextFrame]_vars

\* C24: no step changes the owner of a quiz, and a step changes the
\* totalAttempts or averageScore of a quiz only if it is the quiz save of a
\* submit; so the save of an update leaves all three as they were, whatever
\* the request body.
C24_UpdateKeepsOwnerAndAggregates ==
    [][\A q \in QuizIds :
          /\ quizzes'[q].createdBy = quizzes[q].createdBy
          /\ (\/ quizzes'[q].totalAttempts # quizzes[q].totalAttempts
              \/ quizzes'[q].averageScore # quizzes[q].averageScore)
                => \E r \in 1..MaxSubmits : SubmitSaveQuiz(r)]_vars

====
